---- MODULE Spec2Model ----
(***************************************************************************)
(* Merkle-tree engine of merkle-sync (package core): hashing, tree         *)
(* construction, proof generation, proof verification and tree diffing.    *)
(*                                                                         *)
(* Strings (Go string / []byte) are sequences of integers.  A payload byte *)
(* is a positive integer; the fixed ASCII tags and the digest delimiters   *)
(* are integers <= 0, so no payload contains them.                         *)
(*                                                                         *)
(* SHA-256 followed by hex encoding is modelled as a collision-free,       *)
(* self-delimiting digest: the preimage enclosed in DigestOpen/DigestClose.*)
(* Two digests are equal exactly when their preimages are equal, and the   *)
(* concatenation of two digests parses in one way only, as it does for     *)
(* two 64-character hex strings.  Go's string order (sort.Strings) is the  *)
(* lexicographic order of the sequences; on leaf digests it is the order   *)
(* of the payload bytes, which are opaque, so every relative order of      *)
(* digest order and list order occurs among the block lists explored.      *)
(***************************************************************************)
EXTENDS Integers, Sequences, FiniteSets, TLC

\* ------------------------------------------------------------------ bounds
MaxBlocks == 4
NumPayloads == 3
MaxDiffBlocks == 3

\* --------------------------------------------------------------- constants
LeafPrefix == <<-1>>
InternalPrefix == <<-2>>
DigestOpen == -3
DigestClose == -4
EmptyString == <<>>
NilNode == 0

\* ----------------------------------------------------------------- hashing
Sha256Hex(bytes) == <<DigestOpen>> \o bytes \o <<DigestClose>>

\* Mutant of HashData: the digest is taken of the prefix alone.
HashDataPrefixOnly(data) == Sha256Hex(LeafPrefix)

HashData(data) == Sha256Hex(LeafPrefix \o data)

\* Mutant of HashConcat: the digest is taken of the prefix alone.
HashConcatPrefixOnly(hash1, hash2) == Sha256Hex(InternalPrefix)

HashConcat(hash1, hash2) == Sha256Hex(InternalPrefix \o hash1 \o hash2)

\* Go's < on strings: bytewise lexicographic, a proper prefix is smaller.
RECURSIVE StringLess(_, _)
StringLess(a, b) ==
    IF Len(b) = 0 THEN FALSE
    ELSE IF Len(a) = 0 THEN TRUE
    ELSE IF Head(a) # Head(b) THEN Head(a) < Head(b)
    ELSE StringLess(Tail(a), Tail(b))

RECURSIVE InsertSorted(_, _)
InsertSorted(s, x) ==
    IF Len(s) = 0 THEN <<x>>
    ELSE IF StringLess(x, Head(s)) THEN <<x>> \o s
    ELSE <<Head(s)>> \o InsertSorted(Tail(s), x)

RECURSIVE SortStrings(_)
SortStrings(s) ==
    IF Len(s) = 0 THEN <<>>
    ELSE InsertSorted(SortStrings(Tail(s)), Head(s))

\* ------------------------------------------------------------- data blocks
Payloads == {<<p>> : p \in 1..NumPayloads}

DataBlock(id, data) == [ID |-> id, EncryptedData |-> data]

RECURSIVE SeqsUpTo(_, _)
SeqsUpTo(S, n) ==
    IF n = 0 THEN {<<>>}
    ELSE LET shorter == SeqsUpTo(S, n - 1)
         IN  shorter \cup {Append(s, x) : s \in {t \in shorter : Len(t) = n - 1}, x \in S}

\* Block lists whose i-th block has ID idBase + i.
BlocksOf(payloadList, idBase) ==
    [i \in 1..Len(payloadList) |-> DataBlock(idBase + i, payloadList[i])]

PayloadsOf(blockList) == [i \in 1..Len(blockList) |-> blockList[i].EncryptedData]

\* --------------------------------------------------------------- the tree
\* A MerkleNode lives in the tree's node arena; a *MerkleNode is its index
\* there (NilNode for nil), so pointer equality is index equality.
\* Mutant of LeafNode: the block ID is hashed with the payload.
LeafNodeHashingID(block) ==
    [Hash |-> HashData(<<block.ID>> \o block.EncryptedData), Left |-> NilNode,
     Right |-> NilNode, IsLeaf |-> TRUE, Data |-> block.EncryptedData,
     BlockID |-> block.ID]

LeafNode(block) ==
    [Hash |-> HashData(block.EncryptedData), Left |-> NilNode, Right |-> NilNode,
     IsLeaf |-> TRUE, Data |-> block.EncryptedData, BlockID |-> block.ID]

\* Mutant of InternalNode: the parent hash takes the right hash first.
InternalNodeSwapped(arena, left, right) ==
    [Hash |-> HashConcat(arena[right].Hash, arena[left].Hash), Left |-> left,
     Right |-> right, IsLeaf |-> FALSE, Data |-> <<>>, BlockID |-> 0]

InternalNode(arena, left, right) ==
    [Hash |-> HashConcat(arena[left].Hash, arena[right].Hash), Left |-> left,
     Right |-> right, IsLeaf |-> FALSE, Data |-> <<>>, BlockID |-> 0]

\* The slice after "if odd, append the last pointer".
PadLevel(nodes) ==
    IF Len(nodes) % 2 = 1 THEN Append(nodes, nodes[Len(nodes)]) ELSE nodes

\* buildTree: returns the arena grown by the parents and the root pointer.
RECURSIVE buildTree(_, _)
buildTree(arena, nodes) ==
    IF Len(nodes) = 0 THEN [arena |-> arena, root |-> NilNode]
    ELSE IF Len(nodes) = 1 THEN [arena |-> arena, root |-> nodes[1]]
    ELSE LET padded == PadLevel(nodes)
             half == Len(padded) \div 2
             newNodes == [k \in 1..half |->
                             InternalNode(arena, padded[2 * k - 1], padded[2 * k])]
             parents == [k \in 1..half |-> Len(arena) + k]
         IN  buildTree(arena \o newNodes, parents)

\* Mutant of NewMerkleTree: RootHash is taken from the first leaf and not
\* from the root.
NewMerkleTreeFirstLeafHash(blocks) ==
    IF Len(blocks) = 0
    THEN [nodes |-> <<>>, Root |-> NilNode, Leaves |-> <<>>, RootHash |-> EmptyString]
    ELSE LET leafArena == [i \in 1..Len(blocks) |-> LeafNode(blocks[i])]
             leaves == [i \in 1..Len(blocks) |-> i]
             built == buildTree(leafArena, leaves)
         IN  [nodes |-> built.arena, Root |-> built.root, Leaves |-> leaves,
              RootHash |-> leafArena[1].Hash]

\* Mutant of NewMerkleTree: the padding duplicate of an odd leaf level is
\* left in Leaves.
NewMerkleTreePaddedLeaves(blocks) ==
    IF Len(blocks) = 0
    THEN [nodes |-> <<>>, Root |-> NilNode, Leaves |-> <<>>, RootHash |-> EmptyString]
    ELSE LET leafArena == [i \in 1..Len(blocks) |-> LeafNode(blocks[i])]
             leaves == [i \in 1..Len(blocks) |-> i]
             built == buildTree(leafArena, leaves)
             rootHash == IF built.root # NilNode THEN built.arena[built.root].Hash
                         ELSE EmptyString
         IN  [nodes |-> built.arena, Root |-> built.root,
              Leaves |-> IF Len(leaves) > 1 THEN PadLevel(leaves) ELSE leaves,
              RootHash |-> rootHash]

\* leaves is made with len = cap, so the append in buildTree copies it and
\* Leaves keeps the slice NewMerkleTree filled.
NewMerkleTree(blocks) ==
    IF Len(blocks) = 0
    THEN [nodes |-> <<>>, Root |-> NilNode, Leaves |-> <<>>, RootHash |-> EmptyString]
    ELSE LET leafArena == [i \in 1..Len(blocks) |-> LeafNode(blocks[i])]
             leaves == [i \in 1..Len(blocks) |-> i]
             built == buildTree(leafArena, leaves)
             rootHash == IF built.root # NilNode THEN built.arena[built.root].Hash
                         ELSE EmptyString
         IN  [nodes |-> built.arena, Root |-> built.root, Leaves |-> leaves,
              RootHash |-> rootHash]

\* ------------------------------------------------------- proof generation
ProofNode(hash, isLeft) == [Hash |-> hash, IsLeft |-> isLeft]

RECURSIVE findParentRecursive(_, _, _)
findParentRecursive(mt, current, target) ==
    IF current = NilNode \/ mt.nodes[current].IsLeaf THEN NilNode
    ELSE IF mt.nodes[current].Left = target \/ mt.nodes[current].Right = target
         THEN current
    ELSE LET parent == findParentRecursive(mt, mt.nodes[current].Left, target)
         IN  IF parent # NilNode THEN parent
             ELSE findParentRecursive(mt, mt.nodes[current].Right, target)

findParent(mt, target) == findParentRecursive(mt, mt.Root, target)

\* Mutant of getProofPathFrom: IsLeft tells the side of the node on the
\* path and not the side of its sibling.
RECURSIVE getProofPathFromOwnSide(_, _, _, _)
getProofPathFromOwnSide(mt, current, visited, proofPath) ==
    IF current = mt.Root THEN [proofPath |-> proofPath, visited |-> visited]
    ELSE LET parent == findParent(mt, current)
         IN  IF parent = NilNode
             THEN [proofPath |-> proofPath, visited |-> visited]
             ELSE LET isLeft == mt.nodes[parent].Left = current
                      sibling == IF isLeft THEN mt.nodes[parent].Right
                                 ELSE mt.nodes[parent].Left
                      fresh == sibling # NilNode
                               /\ mt.nodes[sibling].Hash \notin visited
                  IN  IF fresh
                      THEN getProofPathFromOwnSide(mt, parent,
                               visited \cup {mt.nodes[sibling].Hash},
                               Append(proofPath,
                                      ProofNode(mt.nodes[sibling].Hash, isLeft)))
                      ELSE getProofPathFromOwnSide(mt, parent, visited, proofPath)

\* The loop of getProofPath from `current` upwards; `visited` is the map
\* shared by all paths of one GenerateProof call (its key set).
RECURSIVE getProofPathFrom(_, _, _, _)
getProofPathFrom(mt, current, visited, proofPath) ==
    IF current = mt.Root THEN [proofPath |-> proofPath, visited |-> visited]
    ELSE LET parent == findParent(mt, current)
         IN  IF parent = NilNode
             THEN [proofPath |-> proofPath, visited |-> visited]
             ELSE LET isLeft == mt.nodes[parent].Left = current
                      sibling == IF isLeft THEN mt.nodes[parent].Right
                                 ELSE mt.nodes[parent].Left
                      fresh == sibling # NilNode
                               /\ mt.nodes[sibling].Hash \notin visited
                  IN  IF fresh
                      THEN getProofPathFrom(mt, parent,
                               visited \cup {mt.nodes[sibling].Hash},
                               Append(proofPath,
                                      ProofNode(mt.nodes[sibling].Hash, ~isLeft)))
                      ELSE getProofPathFrom(mt, parent, visited, proofPath)

getProofPath(mt, leaf, visited) == getProofPathFrom(mt, leaf, visited, <<>>)

\* The first leaf whose hash is `hash`, as found by the inner loop of
\* GenerateProof; NilNode when no leaf matches.
RECURSIVE FirstLeafFrom(_, _, _)
FirstLeafFrom(mt, hash, i) ==
    IF i > Len(mt.Leaves) THEN NilNode
    ELSE IF mt.nodes[mt.Leaves[i]].Hash = hash THEN mt.Leaves[i]
    ELSE FirstLeafFrom(mt, hash, i + 1)

RECURSIVE MatchingLeafNodes(_, _)
MatchingLeafNodes(mt, leafHashes) ==
    IF Len(leafHashes) = 0 THEN <<>>
    ELSE LET leaf == FirstLeafFrom(mt, Head(leafHashes), 1)
             rest == MatchingLeafNodes(mt, Tail(leafHashes))
         IN  IF leaf # NilNode THEN <<leaf>> \o rest ELSE rest

RECURSIVE CollectProofPaths(_, _, _, _)
CollectProofPaths(mt, leafNodes, visited, proofPath) ==
    IF Len(leafNodes) = 0 THEN proofPath
    ELSE LET got == getProofPath(mt, Head(leafNodes), visited)
         IN  CollectProofPaths(mt, Tail(leafNodes), got.visited,
                               proofPath \o got.proofPath)

ErrNil == "nil"
ErrEmptyTree == "empty tree"
ErrNoMatch == "no matching leaf nodes found"
ErrNoLeafHashes == "no leaf hashes provided"

\* Mutant of GenerateProof: no check that a leaf was found.
GenerateProofNoMatchCheck(mt, leafHashes) ==
    IF mt.Root = NilNode
    THEN [proof |-> <<>>, isNil |-> TRUE, err |-> "empty tree"]
    ELSE [proof |-> CollectProofPaths(mt, MatchingLeafNodes(mt, leafHashes), {}, <<>>),
          isNil |-> FALSE, err |-> "nil"]

\* The result pair ([]ProofNode, error); isNil tells a nil slice from an
\* empty one.
GenerateProof(mt, leafHashes) ==
    IF mt.Root = NilNode
    THEN [proof |-> <<>>, isNil |-> TRUE, err |-> ErrEmptyTree]
    ELSE LET leafNodes == MatchingLeafNodes(mt, leafHashes)
         IN  IF Len(leafNodes) = 0
             THEN [proof |-> <<>>, isNil |-> TRUE, err |-> ErrNoMatch]
             ELSE [proof |-> CollectProofPaths(mt, leafNodes, {}, <<>>),
                   isNil |-> FALSE, err |-> ErrNil]

\* ----------------------------------------------------- proof verification
RECURSIVE PairLevel(_)
PairLevel(currentLevel) ==
    IF Len(currentLevel) = 0 THEN <<>>
    ELSE IF Len(currentLevel) = 1
         THEN <<HashConcat(currentLevel[1], currentLevel[1])>>
    ELSE <<HashConcat(currentLevel[1], currentLevel[2])>>
         \o PairLevel(SubSeq(currentLevel, 3, Len(currentLevel)))

RECURSIVE ReduceLevels(_)
ReduceLevels(currentLevel) ==
    IF Len(currentLevel) > 1 THEN ReduceLevels(PairLevel(currentLevel))
    ELSE currentLevel

\* Mutant of reconstructRootMultiple: without a proof node nothing is
\* reconstructed.
reconstructRootMultipleNeedsProof(leafHashes, proofPath) ==
    IF Len(proofPath) = 0 THEN <<>>
    ELSE LET top == ReduceLevels(SortStrings(leafHashes))
         IN  IF Len(top) = 1 THEN top[1] ELSE <<>>

\* The proof path is read only to fill availableHashes, which every leaf
\* hash is in already: the leaves alone decide the result.
reconstructRootMultiple(leafHashes, proofPath) ==
    LET availableHashes == {leafHashes[i] : i \in 1..Len(leafHashes)}
                           \cup {proofPath[i].Hash : i \in 1..Len(proofPath)}
        kept == SelectSeq(leafHashes, LAMBDA h : h \in availableHashes)
        top == ReduceLevels(SortStrings(kept))
    IN  IF Len(top) = 1 THEN top[1] ELSE EmptyString

RECURSIVE FoldProof(_, _)
FoldProof(currentHash, proofPath) ==
    IF Len(proofPath) = 0 THEN currentHash
    ELSE FoldProof(IF Head(proofPath).IsLeft
                   THEN HashConcat(Head(proofPath).Hash, currentHash)
                   ELSE HashConcat(currentHash, Head(proofPath).Hash),
                   Tail(proofPath))

reconstructRoot(leafHashes, proofPath) ==
    IF Len(leafHashes) = 0 THEN EmptyString
    ELSE IF Len(leafHashes) > 1 THEN reconstructRootMultiple(leafHashes, proofPath)
    ELSE FoldProof(leafHashes[1], proofPath)

\* Mutant of VerifyProof: a root that does not match is reported as an error.
VerifyProofErrOnMismatch(rootHash, leafHashes, proofPath) ==
    IF Len(leafHashes) = 0 THEN [valid |-> FALSE, err |-> "no leaf hashes provided"]
    ELSE IF reconstructRoot(SortStrings(leafHashes), proofPath) = rootHash
         THEN [valid |-> TRUE, err |-> "nil"]
         ELSE [valid |-> FALSE, err |-> "root mismatch"]

\* The result pair (bool, error).
VerifyProof(rootHash, leafHashes, proofPath) ==
    IF Len(leafHashes) = 0 THEN [valid |-> FALSE, err |-> ErrNoLeafHashes]
    ELSE [valid |-> reconstructRoot(SortStrings(leafHashes), proofPath) = rootHash,
          err |-> ErrNil]

\* ---------------------------------------------------------------- diffing
DiffNode(hash, isLeaf) == [Hash |-> hash, IsLeaf |-> isLeaf]

\* Mutant of diffNodes: the hash comparison is inverted (== for !=).
RECURSIVE diffNodesInverted(_, _, _, _)
diffNodesInverted(t1, node1, t2, node2) ==
    IF node1 = NilNode /\ node2 = NilNode THEN <<>>
    ELSE IF node1 = NilNode \/ node2 = NilNode
         THEN (IF node1 # NilNode
               THEN <<DiffNode(t1.nodes[node1].Hash, t1.nodes[node1].IsLeaf)>>
               ELSE <<>>)
              \o (IF node2 # NilNode
                  THEN <<DiffNode(t2.nodes[node2].Hash, t2.nodes[node2].IsLeaf)>>
                  ELSE <<>>)
    ELSE IF t1.nodes[node1].Hash = t2.nodes[node2].Hash
         THEN IF t1.nodes[node1].IsLeaf /\ t2.nodes[node2].IsLeaf
              THEN <<DiffNode(t1.nodes[node1].Hash, TRUE),
                     DiffNode(t2.nodes[node2].Hash, TRUE)>>
              ELSE diffNodesInverted(t1, t1.nodes[node1].Left, t2, t2.nodes[node2].Left)
                   \o diffNodesInverted(t1, t1.nodes[node1].Right, t2,
                                        t2.nodes[node2].Right)
    ELSE <<>>

\* Mutant of diffNodes: the recursion descends into the left children only.
RECURSIVE diffNodesLeftOnly(_, _, _, _)
diffNodesLeftOnly(t1, node1, t2, node2) ==
    IF node1 = NilNode /\ node2 = NilNode THEN <<>>
    ELSE IF node1 = NilNode \/ node2 = NilNode
         THEN (IF node1 # NilNode
               THEN <<DiffNode(t1.nodes[node1].Hash, t1.nodes[node1].IsLeaf)>>
               ELSE <<>>)
              \o (IF node2 # NilNode
                  THEN <<DiffNode(t2.nodes[node2].Hash, t2.nodes[node2].IsLeaf)>>
                  ELSE <<>>)
    ELSE IF t1.nodes[node1].Hash # t2.nodes[node2].Hash
         THEN IF t1.nodes[node1].IsLeaf /\ t2.nodes[node2].IsLeaf
              THEN <<DiffNode(t1.nodes[node1].Hash, TRUE),
                     DiffNode(t2.nodes[node2].Hash, TRUE)>>
              ELSE diffNodesLeftOnly(t1, t1.nodes[node1].Left, t2,
                                     t2.nodes[node2].Left)
    ELSE <<>>

\* diffNodes: the entries appended to *differences, in order.  node1 is a
\* pointer into t1's arena and node2 into t2's.
RECURSIVE diffNodes(_, _, _, _)
diffNodes(t1, node1, t2, node2) ==
    IF node1 = NilNode /\ node2 = NilNode THEN <<>>
    ELSE IF node1 = NilNode \/ node2 = NilNode
         THEN (IF node1 # NilNode
               THEN <<DiffNode(t1.nodes[node1].Hash, t1.nodes[node1].IsLeaf)>>
               ELSE <<>>)
              \o (IF node2 # NilNode
                  THEN <<DiffNode(t2.nodes[node2].Hash, t2.nodes[node2].IsLeaf)>>
                  ELSE <<>>)
    ELSE IF t1.nodes[node1].Hash # t2.nodes[node2].Hash
         THEN IF t1.nodes[node1].IsLeaf /\ t2.nodes[node2].IsLeaf
              THEN <<DiffNode(t1.nodes[node1].Hash, TRUE),
                     DiffNode(t2.nodes[node2].Hash, TRUE)>>
              ELSE diffNodes(t1, t1.nodes[node1].Left, t2, t2.nodes[node2].Left)
                   \o diffNodes(t1, t1.nodes[node1].Right, t2, t2.nodes[node2].Right)
    ELSE <<>>

\* Mutant of DiffTrees: nothing is reported when the first tree has no root.
DiffTreesSkipEmptyFirst(root1, root2) ==
    [differences |-> IF root1.Root = NilNode THEN <<>>
                     ELSE diffNodes(root1, root1.Root, root2, root2.Root),
     err |-> "nil"]

\* NewMerkleTree never returns a nil *MerkleTree, so the nil-tree branches
\* of DiffTrees are not taken for built trees.
DiffTrees(root1, root2) ==
    [differences |-> diffNodes(root1, root1.Root, root2, root2.Root), err |-> ErrNil]

\* ------------------------------------------------------------------- state
\* blocks, blocks2 : the block lists handed to NewMerkleTree
\* tree, tree2     : <<>> before construction, <<t>> once NewMerkleTree returned t
\* gen             : <<>> or <<g>>, the last GenerateProof call on tree and its result
\* ver             : <<>> or <<v>>, the last VerifyProof call and its result
\* diff            : <<>> or <<d>>, the last DiffTrees call and its result
VARIABLES blocks, blocks2, tree, tree2, gen, ver, diff

\* hcIn    : the two strings a caller of HashConcat holds
\* hcCalls : the HashConcat calls made so far, each with its result
VARIABLES hcIn, hcCalls

hashVars == <<hcIn, hcCalls>>

coreVars == <<blocks, blocks2, tree, tree2, gen, ver, diff, hashVars>>

\* MerkleSyncServer, the goroutines of its RPC handlers, and its callers.
\* serverBlocks : s.blocks
\* merkleTree   : s.merkleTree, <<>> for nil and <<t>> for a tree
\* mutex        : s.mutex, [writer |-> 0 or the holder of Lock,
\*                          readers |-> the holders of RLock]
\* srvPc        : per handler goroutine, "idle" or the step it is about to take
\* srvReq       : per handler goroutine, its request and local variables
\* srvResp      : per handler goroutine, the response it has formed
\* submitCalls  : number of SubmitBlock calls so far (also the next block Id)
\* submitLog    : the SubmitBlock responses returned so far
\* client       : a caller that asks for the root, then for a proof, then has
\*                the proof verified: the responses it has received
VARIABLES serverBlocks, merkleTree, mutex, srvPc, srvReq, srvResp,
          submitCalls, submitLog, client

serverVars == <<serverBlocks, merkleTree, mutex, srvPc, srvReq, srvResp,
                submitCalls, submitLog, client>>

\* EdgeClient and the goroutines that call it.
\* clientMutex : c.mutex, as mutex above; the holders are goroutines
\* offlineMode : c.offlineMode
\* pendingSync : c.pendingSync
\* cache       : c.localDB, per cache key <<>> or <<the stored JSON value>>
\* app         : the goroutine calling GetData and SyncPending: the step it is
\*               about to take and the locals of the call it is in
\* ctl         : the goroutine calling SetOfflineMode
VARIABLES clientMutex, offlineMode, pendingSync, cache, app, ctl

clientVars == <<clientMutex, offlineMode, pendingSync, cache, app, ctl>>

vars == <<coreVars, serverVars, clientVars>>

NumServerProcs == 2
MaxSubmits == 2
NumSubmitPayloads == 2
NumNonces == 1

ServerProcs == 1..NumServerProcs

NoTable == ""
TableNames == {"users", "orders"}

\* Callers of an RPC: anyone, or the client whose responses are kept.
Anyone == "anyone"
TheClient == "client"

NoRequest ==
    [Id |-> 0, EncryptedData |-> <<>>, TableName |-> NoTable,
     LeafHashes |-> <<>>, Index |-> 0, caller |-> Anyone]

\* The fields of the proto responses; at is the number of blocks the server
\* held when the response was formed.
NoResponse ==
    [MerkleRoot |-> EmptyString, LeafHash |-> EmptyString, BlockCount |-> 0,
     ProofPath |-> <<>>, Success |-> FALSE, at |-> 0]

NoClient == [waiting |-> FALSE, root |-> <<>>, proof |-> <<>>, verify |-> <<>>]

\* NewMerkleSyncServer: no blocks, no tree, the mutex free; no RPC running.
NewMerkleSyncServer ==
    /\ serverBlocks = <<>>
    /\ merkleTree = <<>>
    /\ mutex = [writer |-> 0, readers |-> {}]
    /\ srvPc = [p \in ServerProcs |-> "idle"]
    /\ srvReq = [p \in ServerProcs |-> NoRequest]
    /\ srvResp = [p \in ServerProcs |-> NoResponse]
    /\ submitCalls = 0
    /\ submitLog = {}
    /\ client = NoClient

\* Cache keys "cache:<table>:<leafHash>": one table, the leaf digest of each
\* payload a block can carry.
CacheKeys ==
    {[TableName |-> "users", LeafHash |-> HashData(<<p>>)] : p \in 1..NumSubmitPayloads}

NoKey == [TableName |-> NoTable, LeafHash |-> EmptyString]

\* The app goroutine between calls.  result tells how the last GetData
\* ended, hadEntry whether its getFromCache found an entry.
AppIdle ==
    [pc |-> "idle", key |-> NoKey, rootHash |-> EmptyString,
     hadEntry |-> FALSE, result |-> "none", inSyncPending |-> FALSE,
     pending |-> <<>>]

CtlIdle == [pc |-> "idle", offline |-> FALSE]

\* NewEdgeClient: online, nothing pending, an empty local database.
NewEdgeClient ==
    /\ clientMutex = [writer |-> 0, readers |-> {}]
    /\ offlineMode = FALSE
    /\ pendingSync = <<>>
    /\ cache = [k \in CacheKeys |-> <<>>]
    /\ app = AppIdle
    /\ ctl = CtlIdle

\* No HashConcat call made, the caller holding two empty strings.
NoHashConcatCalls ==
    /\ hcIn = [a |-> EmptyString, b |-> EmptyString]
    /\ hcCalls = {}

PayloadLists(n) == SeqsUpTo(Payloads, n)

\* Digests a caller can name without the tree: the leaf hash of each payload.
LeafDigests == {HashData(p) : p \in Payloads}

LeafHashesOf(mt) == [i \in 1..Len(mt.Leaves) |-> mt.nodes[mt.Leaves[i]].Hash]

NodeHashesOf(mt) == {mt.nodes[i].Hash : i \in 1..Len(mt.nodes)}

\* Requests made of GenerateProof: none, one or two leaf digests (present in
\* the tree or not), or every leaf hash of the tree in leaf order.
RequestsFor(mt) ==
    {<<>>} \cup {<<h>> : h \in LeafDigests}
           \cup {<<h1, h2>> : h1 \in LeafDigests, h2 \in LeafDigests}
           \cup {LeafHashesOf(mt)}

\* Strings a caller may pass to VerifyProof as a root or as a leaf hash.
StringsFor(mt) == LeafDigests \cup NodeHashesOf(mt) \cup {EmptyString}

VerifyCall(rootHash, leafHashes, proofPath) ==
    [rootHash |-> rootHash, leafHashes |-> leafHashes, proofPath |-> proofPath]

\* Calls made of VerifyProof after a GenerateProof call g on mt.  Always: the
\* generated proof with the request and the root, and the request with the
\* empty proof.  After a request of at most one hash also: the generated
\* proof with another root, with another single string as the leaf, a
\* single string with the empty proof, and no leaf at all.
VerifyCallsFor(mt, g) ==
    {VerifyCall(mt.RootHash, g.leafHashes, g.proof),
     VerifyCall(mt.RootHash, g.leafHashes, <<>>)}
    \cup (IF Len(g.leafHashes) > 1 THEN {}
          ELSE {VerifyCall(r, g.leafHashes, g.proof) : r \in StringsFor(mt)}
               \cup {VerifyCall(mt.RootHash, <<h>>, g.proof) : h \in StringsFor(mt)}
               \cup {VerifyCall(mt.RootHash, <<h>>, <<>>) : h \in StringsFor(mt)}
               \cup {VerifyCall(mt.RootHash, <<>>, g.proof)})

\* The string "invalid_hash": no digest and no payload.
InvalidHash == <<-9>>

\* Values put in the place of a supplied hash.
TamperValues == LeafDigests \cup {InvalidHash}

\* Calls of VerifyProof with the root and the request of a successful
\* GenerateProof call g for one hash, and a proof that is not the generated
\* one: one supplied hash replaced by another value, or the one-node proof
\* of the invalid hash.
TamperedCallsFor(mt, g) ==
    IF g.err # ErrNil \/ Len(g.leafHashes) # 1 THEN {}
    ELSE {VerifyCall(mt.RootHash, g.leafHashes, [g.proof EXCEPT ![k].Hash = x]) :
              k \in 1..Len(g.proof), x \in TamperValues}
         \cup {VerifyCall(mt.RootHash, g.leafHashes, <<ProofNode(InvalidHash, TRUE)>>)}

\* Calls of VerifyProof with the request of a GenerateProof call g for two
\* or more hashes: the root the leaf hashes pair up to by themselves, with
\* the generated proof, no proof and the one-node proof of the invalid
\* hash; and the tree's root with the latter.
MultiLeafCallsFor(mt, g) ==
    IF Len(g.leafHashes) < 2 THEN {}
    ELSE LET paired == reconstructRoot(SortStrings(g.leafHashes), <<>>)
             invalidProof == <<ProofNode(InvalidHash, TRUE)>>
         IN  {VerifyCall(paired, g.leafHashes, P) : P \in {g.proof, <<>>, invalidProof}}
             \cup {VerifyCall(mt.RootHash, g.leafHashes, invalidProof)}

\* ----------------------------------------------------------------- actions
\* Each run makes one call of each operation, in the order a caller makes
\* them: build, generate, verify (or build twice, diff).  The operations
\* are functions of their arguments, so one call per run loses no result.
NewMerkleTreeOp ==
    /\ tree = <<>>
    /\ tree' = <<NewMerkleTree(blocks)>>
    /\ UNCHANGED <<blocks, blocks2, tree2, gen, ver, diff>>
    /\ UNCHANGED <<hashVars, serverVars, clientVars>>

NewMerkleTreeOp2 ==
    /\ tree2 = <<>>
    /\ tree2' = <<NewMerkleTree(blocks2)>>
    /\ UNCHANGED <<blocks, blocks2, tree, gen, ver, diff>>
    /\ UNCHANGED <<hashVars, serverVars, clientVars>>

GenerateProofOp(leafHashes) ==
    /\ tree # <<>> /\ gen = <<>>
    /\ LET res == GenerateProof(tree[1], leafHashes)
       IN  gen' = <<[leafHashes |-> leafHashes, proof |-> res.proof,
                     isNil |-> res.isNil, err |-> res.err]>>
    /\ UNCHANGED <<blocks, blocks2, tree, tree2, ver, diff>>
    /\ UNCHANGED <<hashVars, serverVars, clientVars>>

VerifyProofOp(call) ==
    /\ gen # <<>> /\ ver = <<>>
    /\ LET res == VerifyProof(call.rootHash, call.leafHashes, call.proofPath)
       IN  ver' = <<[rootHash |-> call.rootHash, leafHashes |-> call.leafHashes,
                     proofPath |-> call.proofPath, valid |-> res.valid,
                     err |-> res.err]>>
    /\ UNCHANGED <<blocks, blocks2, tree, tree2, gen, diff>>
    /\ UNCHANGED <<hashVars, serverVars, clientVars>>

\* DiffTrees(a, b) with a and b each the first or the second tree.
TreeNo(n) == IF n = 1 THEN tree[1] ELSE tree2[1]

DiffTreesOp(a, b) ==
    /\ tree # <<>> /\ tree2 # <<>> /\ diff = <<>>
    /\ LET res == DiffTrees(TreeNo(a), TreeNo(b))
       IN  diff' = <<[a |-> a, b |-> b, differences |-> res.differences,
                      err |-> res.err]>>
    /\ UNCHANGED <<blocks, blocks2, tree, tree2, gen, ver>>
    /\ UNCHANGED <<hashVars, serverVars, clientVars>>

\* ------------------------------------------- specification: proof pipeline
Init ==
    /\ blocks \in {BlocksOf(ps, 0) : ps \in PayloadLists(MaxBlocks)}
    /\ blocks2 = <<>>
    /\ tree = <<>> /\ tree2 = <<>>
    /\ gen = <<>> /\ ver = <<>> /\ diff = <<>>
    /\ NewMerkleSyncServer
    /\ NewEdgeClient
    /\ NoHashConcatCalls

Next ==
    \/ NewMerkleTreeOp
    \/ \E leafHashes \in (IF tree = <<>> THEN {} ELSE RequestsFor(tree[1])) :
           GenerateProofOp(leafHashes)
    \/ \E call \in (IF gen = <<>> THEN {} ELSE VerifyCallsFor(tree[1], gen[1])) :
           VerifyProofOp(call)
    \/ \E call \in (IF gen = <<>> THEN {} ELSE TamperedCallsFor(tree[1], gen[1])) :
           VerifyProofOp(call)
    \/ \E call \in (IF gen = <<>> THEN {} ELSE MultiLeafCallsFor(tree[1], gen[1])) :
           VerifyProofOp(call)

Spec == Init /\ [][Next]_vars

\* ------------------------------------------------- specification: two trees
IDBases == {0, 10}

InitDiff ==
    /\ blocks \in {BlocksOf(ps, 0) : ps \in PayloadLists(MaxDiffBlocks)}
    /\ blocks2 \in {BlocksOf(ps, b) : ps \in PayloadLists(MaxDiffBlocks), b \in IDBases}
    /\ tree = <<>> /\ tree2 = <<>>
    /\ gen = <<>> /\ ver = <<>> /\ diff = <<>>
    /\ NewMerkleSyncServer
    /\ NewEdgeClient
    /\ NoHashConcatCalls

NextDiff ==
    \/ NewMerkleTreeOp
    \/ NewMerkleTreeOp2
    \/ \E a \in {1, 2}, b \in {1, 2} : DiffTreesOp(a, b)

SpecDiff == InitDiff /\ [][NextDiff]_vars

\* ------------------------------- specification: calls on built trees, any order
\* The second tree has one leaf; GenerateProof is asked for one leaf digest
\* and VerifyProof is given its request and result.
InitCalls ==
    /\ blocks \in {BlocksOf(ps, 0) : ps \in PayloadLists(MaxDiffBlocks)}
    /\ blocks2 \in {BlocksOf(<<p>>, 0) : p \in Payloads}
    /\ tree = <<>> /\ tree2 = <<>>
    /\ gen = <<>> /\ ver = <<>> /\ diff = <<>>
    /\ NewMerkleSyncServer
    /\ NewEdgeClient
    /\ NoHashConcatCalls

NextCalls ==
    \/ NewMerkleTreeOp
    \/ NewMerkleTreeOp2
    \/ \E h \in LeafDigests : GenerateProofOp(<<h>>)
    \/ /\ gen # <<>>
       /\ VerifyProofOp(VerifyCall(tree[1].RootHash, gen[1].leafHashes, gen[1].proof))
    \/ \E a \in {1, 2}, b \in {1, 2} : DiffTreesOp(a, b)

SpecCalls == InitCalls /\ [][NextCalls]_vars

\* ------------------------------------------------ specification: HashConcat
\* Strings handed to HashConcat: every string of up to MaxHashStringLen
\* bytes over HashBytes, and the leaf digests.
MaxHashStringLen == 3

HashBytes == {1, 2}

HashStrings == SeqsUpTo(HashBytes, MaxHashStringLen) \cup LeafDigests

HashConcatOp(hash1, hash2) ==
    /\ hcCalls' = hcCalls \cup {[hash1 |-> hash1, hash2 |-> hash2,
                                  result |-> HashConcat(hash1, hash2)]}
    /\ hcCalls' # hcCalls
    /\ UNCHANGED <<blocks, blocks2, tree, tree2, gen, ver, diff, hcIn>>
    /\ UNCHANGED <<serverVars, clientVars>>

InitHash ==
    /\ blocks = <<>> /\ blocks2 = <<>>
    /\ tree = <<>> /\ tree2 = <<>>
    /\ gen = <<>> /\ ver = <<>> /\ diff = <<>>
    /\ NewMerkleSyncServer
    /\ NewEdgeClient
    /\ hcIn \in {[a |-> x, b |-> y] : x \in HashStrings, y \in HashStrings}
    /\ hcCalls = {}

\* The caller hashes its two strings in either order.
NextHash ==
    \/ HashConcatOp(hcIn.a, hcIn.b)
    \/ HashConcatOp(hcIn.b, hcIn.a)

SpecHash == InitHash /\ [][NextHash]_vars

\* ------------------------------------------------------ MerkleSyncServer
\* core.DataBlock as the server stores it.
ServerBlock(id, data, table) ==
    [ID |-> id, EncryptedData |-> data, TableName |-> table]

\* Payloads a SubmitBlock request carries: none (the server then encrypts
\* the metadata), or already encrypted bytes.
SubmitPayloads == {<<>>} \cup {<<p>> : p \in 1..NumSubmitPayloads}

Nonces == 1..NumNonces

\* json.Marshal(req.Block.Metadata), the plaintext of encrypt.
MetadataJSON == <<1>>

\* encrypt: gcm.Seal(nonce, nonce, data, nil), the nonce followed by the
\* sealed data (here the data closed by the nonce that sealed it).
encrypt(data, nonce) == <<nonce>> \o data \o <<nonce>>

\* Every payload the server can come to store.
StorablePayloads ==
    (SubmitPayloads \ {<<>>}) \cup {encrypt(MetadataJSON, n) : n \in Nonces}

\* sync.RWMutex: Lock needs no writer and no reader, RLock needs no writer.
\* Mutant of CanLock: Lock only waits for the readers.
CanLockIgnoringWriter(m) == m.readers = {}

CanLock(m) == m.writer = 0 /\ m.readers = {}

\* Mutant of CanRLock: RLock never waits.
CanRLockAlways(m) == TRUE

CanRLock(m) == m.writer = 0

\* Mutant of BlockCountFor: the table name of the request is not looked at.
BlockCountUnfiltered(bs, table) == Len(bs)

\* GetMerkleRoot's blockCount: all blocks, or those of the requested table.
BlockCountFor(bs, table) ==
    IF table # NoTable
    THEN Cardinality({i \in 1..Len(bs) : bs[i].TableName = table})
    ELSE Len(bs)

\* Mutant of ToProtoProof: IsLeft is not copied.
ToProtoProofNoSide(proof) ==
    [i \in 1..Len(proof) |-> ProofNode(proof[i].Hash, FALSE)]

\* The conversion loops between core.ProofNode and proto.ProofNode.
ToProtoProof(proof) ==
    [i \in 1..Len(proof) |-> ProofNode(proof[i].Hash, proof[i].IsLeft)]

\* SubmitBlock, step 1: s.mutex.Lock() on entry.
SubmitBlockLock(p, data, table) ==
    /\ srvPc[p] = "idle" /\ submitCalls < MaxSubmits
    /\ CanLock(mutex)
    /\ mutex' = [mutex EXCEPT !.writer = p]
    /\ submitCalls' = submitCalls + 1
    /\ srvReq' = [srvReq EXCEPT ![p] =
                     [NoRequest EXCEPT !.Id = submitCalls + 1,
                                       !.EncryptedData = data,
                                       !.TableName = table]]
    /\ srvPc' = [srvPc EXCEPT ![p] = "SubmitBlockAppend"]
    /\ UNCHANGED <<serverBlocks, merkleTree, srvResp, submitLog, client, coreVars, clientVars>>

\* SubmitBlock, step 2: encrypt the metadata when the request carries no
\* payload (returning Success = false if that fails), then append the block.
\* Index is the position the block is appended at.
SubmitBlockAppend(p, nonce, encryptFails) ==
    /\ srvPc[p] = "SubmitBlockAppend"
    /\ LET req == srvReq[p]
           toEncrypt == Len(req.EncryptedData) = 0
           encryptedData == IF toEncrypt THEN encrypt(MetadataJSON, nonce)
                            ELSE req.EncryptedData
       IN  IF toEncrypt /\ encryptFails
           THEN /\ srvResp' = [srvResp EXCEPT ![p] = NoResponse]
                /\ srvPc' = [srvPc EXCEPT ![p] = "SubmitBlockUnlock"]
                /\ UNCHANGED <<serverBlocks, srvReq>>
           ELSE /\ serverBlocks' = Append(serverBlocks,
                                          ServerBlock(req.Id, encryptedData, req.TableName))
                /\ srvReq' = [srvReq EXCEPT ![p].EncryptedData = encryptedData,
                                            ![p].Index = Len(serverBlocks) + 1]
                /\ srvPc' = [srvPc EXCEPT ![p] = "SubmitBlockRebuild"]
                /\ UNCHANGED srvResp
    /\ UNCHANGED <<merkleTree, mutex, submitCalls, submitLog, client, coreVars, clientVars>>

\* SubmitBlock, step 3: rebuild the tree from s.blocks, publish it and form
\* the response.
SubmitBlockRebuild(p) ==
    /\ srvPc[p] = "SubmitBlockRebuild"
    /\ LET t == NewMerkleTree(serverBlocks)
       IN  /\ merkleTree' = <<t>>
           /\ srvResp' = [srvResp EXCEPT ![p] =
                             [NoResponse EXCEPT
                                 !.MerkleRoot = t.RootHash,
                                 !.LeafHash = HashData(srvReq[p].EncryptedData),
                                 !.Success = TRUE,
                                 !.at = Len(serverBlocks)]]
    /\ srvPc' = [srvPc EXCEPT ![p] = "SubmitBlockUnlock"]
    /\ UNCHANGED <<serverBlocks, mutex, srvReq, submitCalls, submitLog, client, coreVars, clientVars>>

\* SubmitBlock, step 4: the deferred s.mutex.Unlock() and the return of the
\* response to the caller.
SubmitBlockUnlock(p) ==
    /\ srvPc[p] = "SubmitBlockUnlock"
    /\ mutex' = [mutex EXCEPT !.writer = 0]
    /\ submitLog' = submitLog \cup
                       {[Id |-> srvReq[p].Id, Index |-> srvReq[p].Index,
                         MerkleRoot |-> srvResp[p].MerkleRoot,
                         LeafHash |-> srvResp[p].LeafHash,
                         Success |-> srvResp[p].Success]}
    /\ srvPc' = [srvPc EXCEPT ![p] = "idle"]
    /\ srvReq' = [srvReq EXCEPT ![p] = NoRequest]
    /\ srvResp' = [srvResp EXCEPT ![p] = NoResponse]
    /\ UNCHANGED <<serverBlocks, merkleTree, submitCalls, client, coreVars, clientVars>>

\* The responses GetMerkleRoot and GenerateProof form from the server's
\* state while they hold the read lock.
GetMerkleRootResponse(tableName) ==
    IF merkleTree = <<>>
    THEN [NoResponse EXCEPT !.at = Len(serverBlocks)]
    ELSE [NoResponse EXCEPT
             !.MerkleRoot = merkleTree[1].RootHash,
             !.BlockCount = BlockCountFor(serverBlocks, tableName),
             !.at = Len(serverBlocks)]

GenerateProofResponse(leafHashes) ==
    LET res == GenerateProof(merkleTree[1], leafHashes)
    IN  IF merkleTree = <<>> \/ res.err # ErrNil
        THEN [NoResponse EXCEPT !.at = Len(serverBlocks)]
        ELSE [NoResponse EXCEPT !.ProofPath = ToProtoProof(res.proof),
                                !.Success = TRUE,
                                !.at = Len(serverBlocks)]

\* GetMerkleRoot, step 1: s.mutex.RLock() on entry.  The client calls it
\* first, and makes one call at a time.
GetMerkleRootRLock(p, table, caller) ==
    /\ srvPc[p] = "idle"
    /\ caller = TheClient => (~client.waiting /\ client.root = <<>>)
    /\ CanRLock(mutex)
    /\ mutex' = [mutex EXCEPT !.readers = @ \cup {p}]
    /\ srvReq' = [srvReq EXCEPT ![p] =
                     [NoRequest EXCEPT !.TableName = table, !.caller = caller]]
    /\ srvPc' = [srvPc EXCEPT ![p] = "GetMerkleRootRead"]
    /\ client' = IF caller = TheClient THEN [client EXCEPT !.waiting = TRUE]
                 ELSE client
    /\ UNCHANGED <<serverBlocks, merkleTree, srvResp, submitCalls, submitLog, coreVars, clientVars>>

\* GetMerkleRoot, step 2: read merkleTree and blocks and form the response.
GetMerkleRootRead(p) ==
    /\ srvPc[p] = "GetMerkleRootRead"
    /\ srvResp' = [srvResp EXCEPT ![p] = GetMerkleRootResponse(srvReq[p].TableName)]
    /\ srvPc' = [srvPc EXCEPT ![p] = "GetMerkleRootRUnlock"]
    /\ UNCHANGED <<serverBlocks, merkleTree, mutex, srvReq, submitCalls, submitLog,
                   client, coreVars, clientVars>>

\* GetMerkleRoot, step 3: the deferred s.mutex.RUnlock() and the return.
GetMerkleRootRUnlock(p) ==
    /\ srvPc[p] = "GetMerkleRootRUnlock"
    /\ mutex' = [mutex EXCEPT !.readers = @ \ {p}]
    /\ client' = IF srvReq[p].caller = TheClient
                 THEN [client EXCEPT !.waiting = FALSE,
                                     !.root = <<[MerkleRoot |-> srvResp[p].MerkleRoot,
                                                 at |-> srvResp[p].at]>>]
                 ELSE client
    /\ srvPc' = [srvPc EXCEPT ![p] = "idle"]
    /\ srvReq' = [srvReq EXCEPT ![p] = NoRequest]
    /\ srvResp' = [srvResp EXCEPT ![p] = NoResponse]
    /\ UNCHANGED <<serverBlocks, merkleTree, submitCalls, submitLog, coreVars, clientVars>>

\* Leaf hash lists a GenerateProof request carries: one leaf digest.
ProofRequests == {<<HashData(d)>> : d \in StorablePayloads}

\* GenerateProof, step 1: s.mutex.RLock() on entry.  The client calls it
\* once it has a root.
ServerGenerateProofRLock(p, leafHashes, caller) ==
    /\ srvPc[p] = "idle"
    /\ caller = TheClient
       => (~client.waiting /\ client.root # <<>> /\ client.proof = <<>>)
    /\ CanRLock(mutex)
    /\ mutex' = [mutex EXCEPT !.readers = @ \cup {p}]
    /\ srvReq' = [srvReq EXCEPT ![p] =
                     [NoRequest EXCEPT !.LeafHashes = leafHashes, !.caller = caller]]
    /\ srvPc' = [srvPc EXCEPT ![p] = "GenerateProofRead"]
    /\ client' = IF caller = TheClient THEN [client EXCEPT !.waiting = TRUE]
                 ELSE client
    /\ UNCHANGED <<serverBlocks, merkleTree, srvResp, submitCalls, submitLog, coreVars, clientVars>>

\* GenerateProof, step 2: no tree, a failed proof, or the converted proof.
ServerGenerateProofRead(p) ==
    /\ srvPc[p] = "GenerateProofRead"
    /\ srvResp' = [srvResp EXCEPT ![p] = GenerateProofResponse(srvReq[p].LeafHashes)]
    /\ srvPc' = [srvPc EXCEPT ![p] = "GenerateProofRUnlock"]
    /\ UNCHANGED <<serverBlocks, merkleTree, mutex, srvReq, submitCalls, submitLog,
                   client, coreVars, clientVars>>

\* GenerateProof, step 3: the deferred s.mutex.RUnlock() and the return.
ServerGenerateProofRUnlock(p) ==
    /\ srvPc[p] = "GenerateProofRUnlock"
    /\ mutex' = [mutex EXCEPT !.readers = @ \ {p}]
    /\ client' = IF srvReq[p].caller = TheClient
                 THEN [client EXCEPT !.waiting = FALSE,
                                     !.proof = <<[LeafHashes |-> srvReq[p].LeafHashes,
                                                  ProofPath |-> srvResp[p].ProofPath,
                                                  Success |-> srvResp[p].Success,
                                                  at |-> srvResp[p].at]>>]
                 ELSE client
    /\ srvPc' = [srvPc EXCEPT ![p] = "idle"]
    /\ srvReq' = [srvReq EXCEPT ![p] = NoRequest]
    /\ srvResp' = [srvResp EXCEPT ![p] = NoResponse]
    /\ UNCHANGED <<serverBlocks, merkleTree, submitCalls, submitLog, coreVars, clientVars>>

\* VerifyProof (takes no lock): the client passes the root of its
\* GetMerkleRoot response with the leaf hashes and the proof of its
\* GenerateProof response; an error of core.VerifyProof gives Valid = false.
ServerVerifyProof ==
    /\ ~client.waiting
    /\ client.root # <<>> /\ client.proof # <<>> /\ client.verify = <<>>
    /\ LET res == VerifyProof(client.root[1].MerkleRoot, client.proof[1].LeafHashes,
                              ToProtoProof(client.proof[1].ProofPath))
       IN  client' = [client EXCEPT !.verify =
                         <<[Valid |-> (res.err = ErrNil /\ res.valid)]>>]
    /\ UNCHANGED <<serverBlocks, merkleTree, mutex, srvPc, srvReq, srvResp,
                   submitCalls, submitLog, coreVars, clientVars>>

\* SubmitBlock by any caller, in the handler goroutine p.
SubmitBlock(p) ==
    \/ \E data \in SubmitPayloads, table \in TableNames :
           SubmitBlockLock(p, data, table)
    \/ \E nonce \in Nonces, encryptFails \in BOOLEAN :
           SubmitBlockAppend(p, nonce, encryptFails)
    \/ SubmitBlockRebuild(p)
    \/ SubmitBlockUnlock(p)

\* ---------------------------- specification: the server and any callers
InitServer ==
    /\ blocks = <<>> /\ blocks2 = <<>>
    /\ tree = <<>> /\ tree2 = <<>>
    /\ gen = <<>> /\ ver = <<>> /\ diff = <<>>
    /\ NewMerkleSyncServer
    /\ NewEdgeClient
    /\ NoHashConcatCalls

\* Requests of the anonymous callers: GetMerkleRoot with no table and with
\* one table name, and GenerateProof of the leaf digest of one payload
\* (stored or not, as the submitters choose).
AnyoneTableNames == {NoTable, "users"}

AnyoneProofRequests == {<<HashData(<<1>>)>>}

NextServer ==
    \E p \in ServerProcs :
        \/ SubmitBlock(p)
        \/ \E table \in AnyoneTableNames :
               GetMerkleRootRLock(p, table, Anyone)
        \/ GetMerkleRootRead(p)
        \/ GetMerkleRootRUnlock(p)
        \/ \E leafHashes \in AnyoneProofRequests :
               ServerGenerateProofRLock(p, leafHashes, Anyone)
        \/ ServerGenerateProofRead(p)
        \/ ServerGenerateProofRUnlock(p)

SpecServer == InitServer /\ [][NextServer]_vars

\* ------------- specification: the server, submitters and a verifying client
NextSession ==
    \/ \E p \in ServerProcs :
        \/ SubmitBlock(p)
        \/ GetMerkleRootRLock(p, NoTable, TheClient)
        \/ GetMerkleRootRead(p)
        \/ GetMerkleRootRUnlock(p)
        \/ \E leafHashes \in ProofRequests :
               ServerGenerateProofRLock(p, leafHashes, TheClient)
        \/ ServerGenerateProofRead(p)
        \/ ServerGenerateProofRUnlock(p)
    \/ ServerVerifyProof

SpecSession == InitServer /\ [][NextSession]_vars

\* ------------------------------------------------------------------ claims
T == tree[1]
G == gen[1]
V == ver[1]

IsLeafHash(mt, h) == \E i \in 1..Len(mt.Leaves) : mt.nodes[mt.Leaves[i]].Hash = h

\* The last VerifyProof call was given the root of the tree, the request of
\* the last GenerateProof call and the proof that call returned.
VerifiedGenerated ==
    /\ gen # <<>> /\ ver # <<>>
    /\ G.err = ErrNil
    /\ V.rootHash = T.RootHash
    /\ V.leafHashes = G.leafHashes
    /\ V.proofPath = G.proof

DistinctLeafHashes(mt, hs) ==
    /\ Len(hs) >= 1
    /\ \A i \in 1..Len(hs) : IsLeafHash(mt, hs[i])
    /\ \A i, j \in 1..Len(hs) : i # j => hs[i] # hs[j]

\* C1: for every non-empty set S of leaf hashes of a built tree, VerifyProof
\* of the tree's root, S and GenerateProof(S) returns true.
C1_MultiLeafRoundTrip ==
    (VerifiedGenerated /\ DistinctLeafHashes(T, G.leafHashes)) => V.valid

\* C2: for every leaf hash h of a built tree, GenerateProof([h]) succeeds and
\* VerifyProof of the root, [h] and that proof returns (true, nil).
C2_SingleLeafRoundTrip ==
    (gen # <<>> /\ Len(G.leafHashes) = 1 /\ IsLeafHash(T, G.leafHashes[1]))
    => /\ G.err = ErrNil
       /\ VerifiedGenerated => (V.valid /\ V.err = ErrNil)

\* The last leaf of a three-leaf tree (the one paired with itself), with a
\* payload no other leaf has, was proved and verified.
C2_Witness ==
    /\ VerifiedGenerated
    /\ Len(T.Leaves) = 3
    /\ G.leafHashes = <<T.nodes[3].Hash>>
    /\ T.nodes[3].Hash \notin {T.nodes[1].Hash, T.nodes[2].Hash}
    /\ V.valid

PayloadsIn(blockList) == {blockList[i].EncryptedData : i \in 1..Len(blockList)}

\* C3: with the proof P generated for the leaf of payload p, VerifyProof is
\* false for every root other than the tree's (leaf and proof unchanged) and
\* false for the leaf hash of every payload p' other than p (root and proof
\* unchanged).
C3_TamperDetection ==
    \A p \in PayloadsIn(blocks) :
        (/\ gen # <<>> /\ ver # <<>>
         /\ G.leafHashes = <<HashData(p)>> /\ G.err = ErrNil
         /\ V.proofPath = G.proof)
        => /\ (V.leafHashes = G.leafHashes /\ V.rootHash # T.RootHash) => ~V.valid
           /\ \A q \in Payloads \ {p} :
                  (V.rootHash = T.RootHash /\ V.leafHashes = <<HashData(q)>>)
                  => ~V.valid

\* A proof of two supplied hashes was checked against the right root with
\* the leaf hash of another payload of the same tree, and rejected.
C3_Witness ==
    /\ gen # <<>> /\ ver # <<>>
    /\ G.err = ErrNil /\ Len(G.leafHashes) = 1 /\ Len(G.proof) = 2
    /\ V.proofPath = G.proof /\ V.rootHash = T.RootHash
    /\ V.leafHashes # G.leafHashes /\ Len(V.leafHashes) = 1
    /\ IsLeafHash(T, V.leafHashes[1])
    /\ ~V.valid

\* C4: a single value that VerifyProof accepts against the root of a built
\* tree (here: one that has a root), with whatever proof, is the hash of one
\* of the tree's leaves.
C4_AcceptedValueIsLeaf ==
    (tree # <<>> /\ ver # <<>> /\ T.Root # NilNode /\ V.rootHash = T.RootHash
     /\ Len(V.leafHashes) = 1 /\ V.valid)
    => IsLeafHash(T, V.leafHashes[1])

\* C5: GenerateProof returns an error and no proof when some requested hash
\* is the hash of no leaf, whatever the other requested hashes are.
C5_NotFoundOnAnyMissing ==
    (gen # <<>> /\ T.Root # NilNode
     /\ \E i \in 1..Len(G.leafHashes) : ~IsLeafHash(T, G.leafHashes[i]))
    => (G.err # ErrNil /\ G.isNil)

\* C6: GenerateProof returns an error and no proof on a tree without a root
\* (the empty-tree error, for every request) and, on a tree with a root, for
\* the empty request.
C6_DegenerateRequestsFail ==
    gen # <<>>
    => /\ T.Root = NilNode => (G.err = ErrEmptyTree /\ G.isNil)
       /\ (T.Root # NilNode /\ G.leafHashes = <<>>) => (G.err # ErrNil /\ G.isNil)

\* The empty request was made of a tree of three leaves and failed.
C6_Witness ==
    /\ gen # <<>> /\ Len(T.Leaves) = 3 /\ G.leafHashes = <<>>
    /\ G.err = ErrNoMatch /\ G.isNil

\* The reference computation of C7, on hashes alone: pair left to right,
\* the unpaired last hash with itself, until one hash remains.
RECURSIVE ReferenceLevelUp(_)
ReferenceLevelUp(hs) ==
    IF Len(hs) = 0 THEN <<>>
    ELSE IF Len(hs) = 1 THEN <<HashConcat(hs[1], hs[1])>>
    ELSE <<HashConcat(hs[1], hs[2])>> \o ReferenceLevelUp(Tail(Tail(hs)))

RECURSIVE ReferenceRoot(_)
ReferenceRoot(hs) == IF Len(hs) = 1 THEN hs[1] ELSE ReferenceRoot(ReferenceLevelUp(hs))

PayloadHashes(blockList) ==
    [i \in 1..Len(blockList) |-> HashData(blockList[i].EncryptedData)]

\* C7: the root hash of a tree of two or more blocks is the reference
\* computation over the payload hashes; for three blocks it is
\* HashConcat(HashConcat(h0, h1), HashConcat(h2, h2)).
C7_RootIsReferenceComputation ==
    (tree # <<>> /\ Len(blocks) >= 2)
    => LET h == PayloadHashes(blocks)
       IN  /\ T.RootHash = ReferenceRoot(h)
           /\ Len(blocks) = 3
              => T.RootHash = HashConcat(HashConcat(h[1], h[2]), HashConcat(h[3], h[3]))

\* A tree of three blocks with three different payloads was built.
C7_Witness ==
    /\ tree # <<>> /\ Len(blocks) = 3
    /\ Cardinality(PayloadsIn(blocks)) = 3
    /\ T.Root # NilNode

\* C8: RootHash is the empty string exactly when the block list is empty
\* (and then Root is nil); otherwise it is Root.Hash; for one block the root
\* is the leaf itself and RootHash is HashData of its payload.
C8_RootHashInvariant ==
    tree # <<>>
    => /\ (T.RootHash = EmptyString) <=> (Len(blocks) = 0)
       /\ Len(blocks) = 0 => T.Root = NilNode
       /\ Len(blocks) > 0 => (T.Root # NilNode /\ T.RootHash = T.nodes[T.Root].Hash)
       /\ Len(blocks) = 1
          => /\ T.Root = T.Leaves[1] /\ T.nodes[T.Root].IsLeaf
             /\ T.RootHash = HashData(blocks[1].EncryptedData)

\* A tree of one block was built.
C8_Witness == tree # <<>> /\ Len(blocks) = 1 /\ Len(T.nodes) = 1 /\ T.Root = 1

T2 == tree2[1]
D == diff[1]

SamePayloads == PayloadsOf(blocks) = PayloadsOf(blocks2)

\* C9: two trees built from block lists with the same ordered payloads
\* (whatever the blocks' other fields) have the same RootHash and the same
\* leaf hash at every position.
C9_Determinism ==
    (tree # <<>> /\ tree2 # <<>> /\ SamePayloads)
    => (T.RootHash = T2.RootHash /\ LeafHashesOf(T) = LeafHashesOf(T2))

\* Two trees were built from three blocks each, with the same payloads and
\* different block IDs.
C9_Witness ==
    /\ tree # <<>> /\ tree2 # <<>> /\ SamePayloads
    /\ Len(blocks) = 3 /\ blocks # blocks2
    /\ T.RootHash = T2.RootHash

\* C10: DiffTrees of two trees built from the same ordered payloads, and of
\* a tree with itself, returns the empty list and no error.
C10_DiffIdentity ==
    (diff # <<>> /\ (D.a = D.b \/ SamePayloads))
    => (D.differences = <<>> /\ D.err = ErrNil)

\* The first tree was compared with the second, both of three leaves, with
\* the same payloads and different block IDs.
C10_Witness ==
    /\ diff # <<>> /\ D.a = 1 /\ D.b = 2 /\ SamePayloads
    /\ Len(blocks) = 3 /\ blocks # blocks2
    /\ D.differences = <<>>

\* The operands of the DiffTrees call, in argument order, and their block lists.
DA == TreeNo(D.a)
DB == TreeNo(D.b)
BlocksNo(n) == IF n = 1 THEN blocks ELSE blocks2

DiffEntries == {D.differences[i] : i \in 1..Len(D.differences)}
LeafHashSet(mt) == {mt.nodes[mt.Leaves[i]].Hash : i \in 1..Len(mt.Leaves)}

\* C11: for two block lists of the same length whose payloads differ at some
\* position, DiffTrees of the two built trees returns a non-empty list.
C11_DiffChangeDetection ==
    (/\ diff # <<>>
     /\ Len(BlocksNo(D.a)) = Len(BlocksNo(D.b))
     /\ PayloadsOf(BlocksNo(D.a)) # PayloadsOf(BlocksNo(D.b)))
    => (D.differences # <<>> /\ D.err = ErrNil)

\* Two trees of three leaves whose payloads differ at the last position only
\* were compared, and both leaves of that position are reported.
C11_Witness ==
    /\ diff # <<>> /\ D.a = 1 /\ D.b = 2
    /\ Len(blocks) = 3 /\ Len(blocks2) = 3
    /\ blocks[1].EncryptedData = blocks2[1].EncryptedData
    /\ blocks[2].EncryptedData = blocks2[2].EncryptedData
    /\ blocks[3].EncryptedData # blocks2[3].EncryptedData
    /\ DiffNode(HashData(blocks[3].EncryptedData), TRUE) \in DiffEntries
    /\ DiffNode(HashData(blocks2[3].EncryptedData), TRUE) \in DiffEntries

\* C12: when DiffTrees compares a tree with no root against a tree with
\* n >= 1 leaves, the result holds the hash of each of the n leaves as a
\* leaf entry.
C12_EmptyTreeDiffReportsEveryLeaf ==
    (diff # <<>> /\ DA.Root = NilNode /\ DB.Root # NilNode)
    => \A h \in LeafHashSet(DB) : DiffNode(h, TRUE) \in DiffEntries

\* C13: when the two roots have different hashes and exactly one of them is
\* a leaf (trees of different leaf counts), every entry of the result is a
\* leaf entry, the leaf that is the one root is reported, and a leaf of the
\* other tree is reported.
C13_MismatchEmitsLeafDescriptors ==
    (/\ diff # <<>>
     /\ DA.Root # NilNode /\ DB.Root # NilNode
     /\ DA.RootHash # DB.RootHash
     /\ DA.nodes[DA.Root].IsLeaf # DB.nodes[DB.Root].IsLeaf)
    => /\ \A e \in DiffEntries : e.IsLeaf
       /\ \E h \in LeafHashSet(DA) : DiffNode(h, TRUE) \in DiffEntries
       /\ \E h \in LeafHashSet(DB) : DiffNode(h, TRUE) \in DiffEntries

\* ------------------------------------------------------------- EdgeClient
\* hex.EncodeToString and hex.DecodeString.  A digest string (Sha256Hex) is
\* the hex form of the 32 raw digest bytes, written here as the preimage
\* between RawOpen and RawClose; the hex form of any other bytes is the
\* bytes between HexOpen and HexClose.  The empty string is the hex form of
\* no bytes.  Anything else is not a hex string.
RawOpen == -5
RawClose == -6
HexOpen == -7
HexClose == -8

IsWrapped(s, open, close) == Len(s) >= 2 /\ s[1] = open /\ s[Len(s)] = close

Unwrapped(s) == SubSeq(s, 2, Len(s) - 1)

HashToString(data) ==
    IF Len(data) = 0 THEN EmptyString
    ELSE IF IsWrapped(data, RawOpen, RawClose)
         THEN <<DigestOpen>> \o Unwrapped(data) \o <<DigestClose>>
    ELSE <<HexOpen>> \o data \o <<HexClose>>

StringToHash(hashStr) ==
    IF Len(hashStr) = 0 THEN [bytes |-> <<>>, err |-> ErrNil]
    ELSE IF IsWrapped(hashStr, DigestOpen, DigestClose)
         THEN [bytes |-> <<RawOpen>> \o Unwrapped(hashStr) \o <<RawClose>>,
               err |-> ErrNil]
    ELSE IF IsWrapped(hashStr, HexOpen, HexClose)
         THEN [bytes |-> Unwrapped(hashStr), err |-> ErrNil]
    ELSE [bytes |-> <<>>, err |-> "encoding/hex: invalid byte"]

\* json.Marshal / json.Unmarshal of []core.ProofNode: an array of objects,
\* here of pairs.
MarshalProof(proofNodes) ==
    [i \in 1..Len(proofNodes) |-> <<proofNodes[i].Hash, proofNodes[i].IsLeft>>]

UnmarshalProof(proofData) ==
    [i \in 1..Len(proofData) |-> ProofNode(proofData[i][1], proofData[i][2])]

CachedData(data, proof, rootHash, tableName) ==
    [Data |-> data, Proof |-> proof, RootHash |-> rootHash, TableName |-> tableName]

\* json.Marshal / json.Unmarshal of CachedData: an object, here a tuple of
\* the field values in declaration order.
MarshalCachedData(c) == <<c.Data, c.Proof, c.RootHash, c.TableName>>

UnmarshalCachedData(value) == CachedData(value[1], value[2], value[3], value[4])

\* verifyCachedData: err == nil && valid.  The leaf handed to VerifyProof is
\* the hex form of the Data bytes.
verifyCachedData(cachedData) ==
    LET proofNodes == UnmarshalProof(cachedData.Proof)
        leafHash == HashToString(cachedData.Data)
        res == VerifyProof(cachedData.RootHash, <<leafHash>>, proofNodes)
    IN  res.err = ErrNil /\ res.valid

\* fetchFromServer's "Convert proof to internal format": each hash decoded
\* and encoded again.  ok is false if a hash does not decode.
ConvertProof(proofPath) ==
    [ok |-> \A i \in 1..Len(proofPath) : StringToHash(proofPath[i].Hash).err = ErrNil,
     proofNodes |-> [i \in 1..Len(proofPath) |->
                        ProofNode(HashToString(StringToHash(proofPath[i].Hash).bytes),
                                  proofPath[i].IsLeft)]]

\* The goroutines, as the mutex names its holders.
AppGoroutine == 1
CtlGoroutine == 2

\* GetData, step 1: c.mutex.RLock() on entry.
GetDataRLock(key) ==
    /\ app.pc = "idle"
    /\ CanRLock(clientMutex)
    /\ clientMutex' = [clientMutex EXCEPT !.readers = @ \cup {AppGoroutine}]
    /\ app' = [AppIdle EXCEPT !.pc = "GetDataCache", !.key = key]
    /\ UNCHANGED <<offlineMode, pendingSync, cache, ctl, serverVars, coreVars>>

\* GetData, step 2: getFromCache and verifyCachedData, then the choice of
\* the cached entry, the server, or the sync queue.
GetDataCache ==
    /\ app.pc = "GetDataCache"
    /\ LET value == cache[app.key]
           found == value # <<>>
           valid == found /\ verifyCachedData(UnmarshalCachedData(value[1]))
       IN  app' = [app EXCEPT
                      !.hadEntry = found,
                      !.result = IF valid THEN "cache" ELSE "none",
                      !.pc = IF valid THEN "GetDataReturn"
                             ELSE IF ~offlineMode THEN "fetchFromServerRoot"
                             ELSE "queueForSync"]
    /\ UNCHANGED <<clientMutex, offlineMode, pendingSync, cache, ctl,
                   serverVars, coreVars>>

\* fetchFromServer, step 1: the GetMerkleRoot RPC, which may fail.
fetchFromServerRoot(rpcFails) ==
    /\ app.pc = "fetchFromServerRoot"
    /\ app' = IF rpcFails
              THEN [app EXCEPT !.result = "error", !.pc = "GetDataReturn"]
              ELSE [app EXCEPT
                       !.rootHash = GetMerkleRootResponse(app.key.TableName).MerkleRoot,
                       !.pc = "fetchFromServerProof"]
    /\ UNCHANGED <<clientMutex, offlineMode, pendingSync, cache, ctl,
                   serverVars, coreVars>>

\* fetchFromServer, step 2: the GenerateProof RPC, which may fail or answer
\* Success = false; then the proof is converted and serialized and the
\* entry stored under the key (a failed store is only logged).
fetchFromServerProof(rpcFails, putFails) ==
    /\ app.pc = "fetchFromServerProof"
    /\ LET proofResp == GenerateProofResponse(<<app.key.LeafHash>>)
           converted == ConvertProof(proofResp.ProofPath)
           cachedData == CachedData(app.key.LeafHash,
                                    MarshalProof(converted.proofNodes),
                                    app.rootHash, app.key.TableName)
       IN  IF rpcFails \/ ~proofResp.Success \/ ~converted.ok
           THEN /\ app' = [app EXCEPT !.result = "error", !.pc = "GetDataReturn"]
                /\ UNCHANGED cache
           ELSE /\ app' = [app EXCEPT !.result = "server", !.pc = "GetDataReturn"]
                /\ cache' = IF putFails THEN cache
                            ELSE [cache EXCEPT ![app.key] =
                                     <<MarshalCachedData(cachedData)>>]
    /\ UNCHANGED <<clientMutex, offlineMode, pendingSync, ctl, serverVars, coreVars>>

\* GetData, last step: the deferred c.mutex.RUnlock() and the return.
GetDataReturn ==
    /\ app.pc = "GetDataReturn"
    /\ clientMutex' = [clientMutex EXCEPT !.readers = @ \ {AppGoroutine}]
    /\ app' = AppIdle
    /\ UNCHANGED <<offlineMode, pendingSync, cache, ctl, serverVars, coreVars>>

\* queueForSync called from GetData: c.mutex.Lock(), the append, the
\* deferred Unlock, and back in GetData the error return.
queueForSync ==
    /\ app.pc = "queueForSync"
    /\ CanLock(clientMutex)
    /\ pendingSync' = Append(pendingSync,
                             [TableName |-> app.key.TableName,
                              LeafHash |-> app.key.LeafHash])
    /\ app' = [app EXCEPT !.result = "data not available offline, queued for sync",
                          !.pc = "GetDataReturn"]
    /\ UNCHANGED <<clientMutex, offlineMode, cache, ctl, serverVars, coreVars>>

\* SyncPending, step 1: c.mutex.Lock().
SyncPendingLock ==
    /\ app.pc = "idle"
    /\ CanLock(clientMutex)
    /\ clientMutex' = [clientMutex EXCEPT !.writer = AppGoroutine]
    /\ app' = [AppIdle EXCEPT !.pc = "SyncPendingCopy"]
    /\ UNCHANGED <<offlineMode, pendingSync, cache, ctl, serverVars, coreVars>>

\* SyncPending, step 2: copy and clear pendingSync, Unlock, and return nil
\* if nothing was pending; otherwise go on to the retry loop.
SyncPendingCopy ==
    /\ app.pc = "SyncPendingCopy"
    /\ pendingSync' = <<>>
    /\ clientMutex' = [clientMutex EXCEPT !.writer = 0]
    /\ app' = IF Len(pendingSync) = 0 THEN AppIdle
              ELSE [AppIdle EXCEPT !.pc = "SyncPendingLoop",
                                   !.inSyncPending = TRUE,
                                   !.pending = pendingSync]
    /\ UNCHANGED <<offlineMode, cache, ctl, serverVars, coreVars>>

\* SetOfflineMode, step 1: c.mutex.Lock().
SetOfflineModeLock(offline) ==
    /\ ctl.pc = "idle"
    /\ CanLock(clientMutex)
    /\ clientMutex' = [clientMutex EXCEPT !.writer = CtlGoroutine]
    /\ ctl' = [pc |-> "SetOfflineModeSet", offline |-> offline]
    /\ UNCHANGED <<offlineMode, pendingSync, cache, app, serverVars, coreVars>>

\* SetOfflineMode, step 2: the assignment and the deferred Unlock.
SetOfflineModeSet ==
    /\ ctl.pc = "SetOfflineModeSet"
    /\ offlineMode' = ctl.offline
    /\ clientMutex' = [clientMutex EXCEPT !.writer = 0]
    /\ ctl' = CtlIdle
    /\ UNCHANGED <<pendingSync, cache, app, serverVars, coreVars>>

\* A whole SubmitBlock call of some other caller of the server: under the
\* server's lock it appends and rebuilds before any reader sees the server.
SubmitBlockCall(data) ==
    /\ submitCalls < MaxSubmits
    /\ LET block == ServerBlock(submitCalls + 1, data, "users")
           t == NewMerkleTree(Append(serverBlocks, block))
       IN  /\ serverBlocks' = Append(serverBlocks, block)
           /\ merkleTree' = <<t>>
           /\ submitLog' = submitLog \cup
                              {[Id |-> submitCalls + 1, Index |-> Len(serverBlocks) + 1,
                                MerkleRoot |-> t.RootHash, LeafHash |-> HashData(data),
                                Success |-> TRUE]}
    /\ submitCalls' = submitCalls + 1
    /\ UNCHANGED <<mutex, srvPc, srvReq, srvResp, client, clientVars, coreVars>>

\* ------------------------------------ specification: the edge client
\* queueForSync is not among the steps: its Lock is never granted, because
\* the only caller that reaches it holds the read lock (QueueForSyncBlocked
\* below), and so pendingSync stays empty and SyncPending never enters its
\* retry loop (SyncPendingLoopNotEntered below).
InitClient ==
    /\ blocks = <<>> /\ blocks2 = <<>>
    /\ tree = <<>> /\ tree2 = <<>>
    /\ gen = <<>> /\ ver = <<>> /\ diff = <<>>
    /\ NewMerkleSyncServer
    /\ NewEdgeClient
    /\ NoHashConcatCalls

NextClient ==
    \/ \E key \in CacheKeys : GetDataRLock(key)
    \/ GetDataCache
    \/ \E rpcFails \in BOOLEAN : fetchFromServerRoot(rpcFails)
    \/ \E rpcFails \in BOOLEAN, putFails \in BOOLEAN :
           fetchFromServerProof(rpcFails, putFails)
    \/ GetDataReturn
    \/ SyncPendingLock
    \/ SyncPendingCopy
    \/ \E offline \in BOOLEAN : SetOfflineModeLock(offline)
    \/ SetOfflineModeSet
    \/ \E data \in SubmitPayloads \ {<<>>} : SubmitBlockCall(data)

SpecClient == InitClient /\ [][NextClient]_vars

\* ------------------------------------------------------- server claims
ReaderPcs ==
    {"GetMerkleRootRead", "GetMerkleRootRUnlock",
     "GenerateProofRead", "GenerateProofRUnlock"}

SubmitPcs == {"SubmitBlockAppend", "SubmitBlockRebuild", "SubmitBlockUnlock"}

\* merkleTree is nil with no blocks, or the tree of the whole blocks list.
TreeMatchesBlocks ==
    \/ merkleTree = <<>> /\ Len(serverBlocks) = 0
    \/ /\ merkleTree # <<>>
       /\ merkleTree[1] = NewMerkleTree(serverBlocks)
       /\ Len(merkleTree[1].Leaves) = Len(serverBlocks)

\* C14: in every state in which GetMerkleRoot or GenerateProof holds the
\* read lock, merkleTree is nil with zero blocks or is the tree
\* NewMerkleTree builds from the whole current blocks list.
C14_SnapshotConsistency ==
    \A p \in ServerProcs : srvPc[p] \in ReaderPcs => TreeMatchesBlocks

\* A GetMerkleRoot holds the read lock over two blocks while the other
\* handler goroutine has made a SubmitBlock call.
C14_Witness ==
    /\ srvPc[1] = "GetMerkleRootRead" /\ 1 \in mutex.readers
    /\ Len(serverBlocks) = 2 /\ merkleTree # <<>>
    /\ \E r \in submitLog : r.Success

SuccessfulSubmits == {r \in submitLog : r.Success}

\* C15: every successful SubmitBlock call returned the root of the tree
\* over the blocks up to its own and the HashData of the payload it stored;
\* its block is the i-th block when it is the i-th successful call in lock
\* order; and with no SubmitBlock running the server holds as many blocks
\* as calls have succeeded.
C15_SubmitAtomic ==
    /\ \A r \in SuccessfulSubmits :
          /\ r.Index \in 1..Len(serverBlocks)
          /\ serverBlocks[r.Index].ID = r.Id
          /\ r.Index = Cardinality({q \in SuccessfulSubmits : q.Id <= r.Id})
          /\ r.MerkleRoot = NewMerkleTree(SubSeq(serverBlocks, 1, r.Index)).RootHash
          /\ r.LeafHash = HashData(serverBlocks[r.Index].EncryptedData)
    /\ (\A p \in ServerProcs : srvPc[p] \notin SubmitPcs)
       => Len(serverBlocks) = Cardinality(SuccessfulSubmits)

\* Two SubmitBlock calls have succeeded, the second with a payload the
\* server encrypted, and the server holds two blocks.
C15_Witness ==
    /\ Cardinality(SuccessfulSubmits) = 2 /\ Len(serverBlocks) = 2
    /\ \A p \in ServerProcs : srvPc[p] = "idle"
    /\ serverBlocks[2].EncryptedData \notin SubmitPayloads
    /\ \E r \in SuccessfulSubmits :
          r.Index = 2 /\ r.MerkleRoot = merkleTree[1].RootHash

BlocksOfTable(table) ==
    {i \in 1..Len(serverBlocks) : serverBlocks[i].TableName = table}

\* C16 as stated: for any request, GetMerkleRoot's response holds the root
\* over all n blocks and BlockCount = n, n the number of successful
\* SubmitBlock calls; with none, the empty root and 0.
C16_RootAndBlockCount ==
    \A p \in ServerProcs :
        srvPc[p] = "GetMerkleRootRUnlock"
        => /\ Len(serverBlocks) = Cardinality(SuccessfulSubmits)
           /\ srvResp[p].MerkleRoot = NewMerkleTree(serverBlocks).RootHash
           /\ srvResp[p].BlockCount = Cardinality(SuccessfulSubmits)

\* C16 amended: the root is the root over all n blocks; BlockCount is n for
\* a request that names no table, and for a request that names a table it
\* is the number of stored blocks of that table.
C16_RootAndTableBlockCount ==
    \A p \in ServerProcs :
        srvPc[p] = "GetMerkleRootRUnlock"
        => /\ Len(serverBlocks) = Cardinality(SuccessfulSubmits)
           /\ srvResp[p].MerkleRoot = NewMerkleTree(serverBlocks).RootHash
           /\ srvResp[p].BlockCount =
                 IF srvReq[p].TableName = NoTable
                 THEN Cardinality(SuccessfulSubmits)
                 ELSE Cardinality(BlocksOfTable(srvReq[p].TableName))

\* GetMerkleRoot for table "users" answers over one block of "users" and
\* one of "orders".
C16_Witness ==
    \E p \in ServerProcs :
        /\ srvPc[p] = "GetMerkleRootRUnlock" /\ srvReq[p].TableName = "users"
        /\ Len(serverBlocks) = 2
        /\ Cardinality(BlocksOfTable("users")) = 1
        /\ srvResp[p].BlockCount = 1
        /\ srvResp[p].MerkleRoot = merkleTree[1].RootHash

\* C17: for a block whose SubmitBlock succeeded before the client's
\* GenerateProof of the LeafHash that call returned, GenerateProof answers
\* Success = true, and if the server held the same blocks when it gave the
\* client the root, VerifyProof of the proof against that root is Valid.
C17_SubmitProveVerify ==
    \A r \in SuccessfulSubmits :
        (/\ client.proof # <<>>
         /\ client.proof[1].LeafHashes = <<r.LeafHash>>
         /\ r.Index <= client.proof[1].at)
        => /\ client.proof[1].Success
           /\ (client.verify # <<>> /\ client.root[1].at = client.proof[1].at)
              => client.verify[1].Valid

\* The client had the proof of the second of two submitted blocks verified
\* against the root over both.
C17_Witness ==
    /\ client.verify # <<>> /\ client.verify[1].Valid
    /\ client.root[1].at = 2 /\ client.proof[1].at = 2
    /\ client.proof[1].ProofPath # <<>>
    /\ \E r \in SuccessfulSubmits :
          r.Index = 2 /\ client.proof[1].LeafHashes = <<r.LeafHash>>
    /\ serverBlocks[1].EncryptedData # serverBlocks[2].EncryptedData

\* -------------------------------------------------- edge client claims
\* The Lock of queueForSync is never granted: whenever GetData has reached
\* queueForSync it holds the read lock itself.
QueueForSyncBlocked ==
    app.pc = "queueForSync"
    => (AppGoroutine \in clientMutex.readers /\ ~CanLock(clientMutex))

\* Nothing is ever pending, and SyncPending never enters its retry loop.
SyncPendingLoopNotEntered ==
    pendingSync = <<>> /\ app.pc # "SyncPendingLoop"

\* C18: every entry GetData has stored in the cache passes verifyCachedData
\* against its stored root, and a GetData whose getFromCache found an entry
\* is served from the cache: it goes neither to the server nor to the sync
\* queue, online or offline.
C18_CacheFirstRead ==
    /\ \A k \in CacheKeys :
          cache[k] # <<>> => verifyCachedData(UnmarshalCachedData(cache[k][1]))
    /\ (app.hadEntry /\ app.pc \notin {"idle", "GetDataCache"})
       => (app.pc = "GetDataReturn" /\ app.result = "cache")

\* C19: a GetData in offline mode never waits in queueForSync for the write
\* lock of the mutex whose read lock it holds itself.
C19_OfflineGetDataReturns ==
    ~(/\ app.pc = "queueForSync"
      /\ offlineMode
      /\ AppGoroutine \in clientMutex.readers)


\* ------------------------------------------------- engine claims, continued
RECURSIVE CeilLog2(_)
CeilLog2(n) == IF n <= 1 THEN 0 ELSE 1 + CeilLog2((n + 1) \div 2)

\* The first position of hash h in the list hs.
FirstIndexOf(hs, h) ==
    CHOOSE i \in 1..Len(hs) : hs[i] = h /\ \A j \in 1..(i - 1) : hs[j] # h

\* The siblings of position i of the level hs, level by level up to the
\* root, computed on hashes alone: at each level the neighbour in the pair
\* (the hash itself for the unpaired last one), marked left when the
\* position is the second of its pair.
RECURSIVE ReferenceSiblings(_, _)
ReferenceSiblings(hs, i) ==
    IF Len(hs) <= 1 THEN <<>>
    ELSE LET padded == IF Len(hs) % 2 = 1 THEN Append(hs, hs[Len(hs)]) ELSE hs
             sib == IF i % 2 = 1 THEN i + 1 ELSE i - 1
         IN  <<ProofNode(padded[sib], i % 2 = 0)>>
             \o ReferenceSiblings(ReferenceLevelUp(hs), (i + 1) \div 2)

\* C21: GenerateProof for one leaf of a tree of n >= 1 leaves returns
\* ceil(log2 n) proof nodes, from the leaf level up, the k-th the hash of
\* the leaf's sibling at level k with IsLeft true exactly when the sibling
\* is the left operand; for four leaves and leaf 0 the proof is
\* [(HashData(data2), right), (HashConcat(h3, h4), right)].
C21_SingleLeafProofShape ==
    (gen # <<>> /\ Len(G.leafHashes) = 1 /\ IsLeafHash(T, G.leafHashes[1]))
    => LET h == PayloadHashes(blocks)
           i == FirstIndexOf(h, G.leafHashes[1])
       IN  /\ G.err = ErrNil
           /\ Len(G.proof) = CeilLog2(Len(blocks))
           /\ G.proof = ReferenceSiblings(h, i)
           /\ (Len(blocks) = 4 /\ i = 1)
              => G.proof = <<ProofNode(h[2], FALSE),
                             ProofNode(HashConcat(h[3], h[4]), FALSE)>>

\* The proof of leaf 0 of a tree of four leaves whose first three payloads
\* differ was generated: two nodes, both right operands.
C21_Witness ==
    /\ gen # <<>> /\ Len(blocks) = 4
    /\ Cardinality({blocks[1].EncryptedData, blocks[2].EncryptedData,
                    blocks[3].EncryptedData}) = 3
    /\ G.leafHashes = <<HashData(blocks[1].EncryptedData)>>
    /\ G.proof = <<ProofNode(HashData(blocks[2].EncryptedData), FALSE),
                   ProofNode(HashConcat(HashData(blocks[3].EncryptedData),
                                        HashData(blocks[4].EncryptedData)), FALSE)>>

\* The proof handed to the last VerifyProof call is the generated proof with
\* the hash of exactly one node replaced by a different value.
OneHashReplaced ==
    /\ Len(V.proofPath) = Len(G.proof)
    /\ \E k \in 1..Len(G.proof) :
          /\ V.proofPath[k].Hash # G.proof[k].Hash
          /\ V.proofPath[k].IsLeft = G.proof[k].IsLeft
          /\ \A j \in 1..Len(G.proof) : j # k => V.proofPath[j] = G.proof[j]

UnrelatedProof == V.proofPath = <<ProofNode(InvalidHash, TRUE)>>

\* C22: VerifyProof returns an error exactly when the leaf-hash list is
\* empty; with the root and the single leaf hash of a successful
\* GenerateProof call, and the generated proof with one supplied hash
\* replaced by a different value or the unrelated one-node proof in its
\* place, it returns (false, nil).
C22_WrongProofIsResultNotError ==
    ver # <<>>
    => /\ (V.err # ErrNil) <=> (V.leafHashes = <<>>)
       /\ (/\ G.err = ErrNil /\ Len(G.leafHashes) = 1
           /\ V.rootHash = T.RootHash /\ V.leafHashes = G.leafHashes
           /\ (OneHashReplaced \/ UnrelatedProof))
          => (~V.valid /\ V.err = ErrNil)

\* The second supplied hash of the proof of a leaf of a four-leaf tree was
\* replaced by the hash of a leaf, and the proof was rejected without error.
C22_Witness ==
    /\ ver # <<>> /\ Len(blocks) = 4
    /\ G.err = ErrNil /\ Len(G.leafHashes) = 1 /\ Len(G.proof) = 2
    /\ V.rootHash = T.RootHash /\ V.leafHashes = G.leafHashes
    /\ OneHashReplaced
    /\ V.proofPath[1] = G.proof[1]
    /\ V.proofPath[2].Hash \in LeafDigests
    /\ ~V.valid /\ V.err = ErrNil

\* Two HashConcat calls with the same two strings in opposite orders.
Swapped(c, d) == c.hash1 = d.hash2 /\ c.hash2 = d.hash1

\* C23 as stated: for any two different strings a and b, of any lengths,
\* HashConcat(a, b) differs from HashConcat(b, a).
C23_HashConcatOrderSensitive ==
    \A c, d \in hcCalls :
        (Swapped(c, d) /\ c.hash1 # c.hash2) => c.result # d.result

\* C23 amended: for any two different strings a and b of the same length
\* (as two digests are), HashConcat(a, b) differs from HashConcat(b, a);
\* in general the two are equal exactly when a followed by b is the same
\* string as b followed by a.
C23_HashConcatOrderSensitiveEqualLength ==
    \A c, d \in hcCalls :
        Swapped(c, d)
        => /\ (c.hash1 # c.hash2 /\ Len(c.hash1) = Len(c.hash2))
              => c.result # d.result
           /\ (c.result = d.result) <=> (c.hash1 \o c.hash2 = c.hash2 \o c.hash1)

\* Two different leaf digests were hashed in both orders, with different
\* results.
C23_Witness ==
    \E c, d \in hcCalls :
        /\ Swapped(c, d) /\ c.hash1 # c.hash2
        /\ c.hash1 \in LeafDigests /\ c.hash2 \in LeafDigests
        /\ c.result # d.result

\* The two requested hashes are the hashes of two different leaves that are
\* children of one parent: positions 2m-1 and 2m of the leaf list.
RequestedSiblings ==
    /\ gen # <<>> /\ G.err = ErrNil /\ Len(G.leafHashes) = 2
    /\ IsLeafHash(T, G.leafHashes[1]) /\ IsLeafHash(T, G.leafHashes[2])
    /\ LET h == PayloadHashes(blocks)
           i == FirstIndexOf(h, G.leafHashes[1])
           j == FirstIndexOf(h, G.leafHashes[2])
       IN  i # j /\ (i + 1) \div 2 = (j + 1) \div 2

\* C24: when the two requested leaves are siblings of each other, neither
\* leaf's own hash appears as a node of the proof GenerateProof returns.
C24_SiblingPairNeedsNoSuppliedHash ==
    RequestedSiblings
    => \A k \in 1..Len(G.proof) :
           G.proof[k].Hash \notin {G.leafHashes[1], G.leafHashes[2]}

\* The positions at which the payloads of the two compared block lists
\* differ (lists of equal length).
DifferingPositions ==
    {i \in 1..Len(BlocksNo(D.a)) :
        BlocksNo(D.a)[i].EncryptedData # BlocksNo(D.b)[i].EncryptedData}

\* C25: no entry appears more than once in the result of DiffTrees, and for
\* two block lists of equal length that differ in the payload of exactly
\* one position the result is exactly two entries, the old and the new hash
\* of that leaf.
C25_DiffIsSetOfLeaves ==
    diff # <<>>
    => /\ \A i, j \in 1..Len(D.differences) :
              i # j => D.differences[i] # D.differences[j]
       /\ (/\ Len(BlocksNo(D.a)) = Len(BlocksNo(D.b))
           /\ Cardinality(DifferingPositions) = 1)
          => LET i == CHOOSE k \in DifferingPositions : TRUE
             IN  D.differences =
                     <<DiffNode(HashData(BlocksNo(D.a)[i].EncryptedData), TRUE),
                       DiffNode(HashData(BlocksNo(D.b)[i].EncryptedData), TRUE)>>

\* The child slots of mt that hold node n: <<parent, "Left">> or
\* <<parent, "Right">>.
ChildSlotsOf(mt, n) ==
    {<<p, "Left">> : p \in {q \in 1..Len(mt.nodes) : mt.nodes[q].Left = n}}
    \cup {<<p, "Right">> : p \in {q \in 1..Len(mt.nodes) : mt.nodes[q].Right = n}}

\* C26: in every tree built by NewMerkleTree no node object occupies more
\* than one child slot; in particular never both Left and Right of the
\* same parent.
C26_ChildrenOwnedExclusively ==
    tree # <<>>
    => \A n \in 1..Len(T.nodes) : Cardinality(ChildSlotsOf(T, n)) <= 1

\* Leaves of a tree built from blockList: one leaf node per block, in order.
LeavesAreInputBlocks(mt, blockList) ==
    /\ Len(mt.Leaves) = Len(blockList)
    /\ \A i \in 1..Len(blockList) :
          /\ \A j \in 1..Len(blockList) : i # j => mt.Leaves[i] # mt.Leaves[j]
          /\ mt.nodes[mt.Leaves[i]] = LeafNode(blockList[i])

\* A step leaves every built tree as it is: Root, RootHash, Leaves and the
\* hash and children of every node.
BuiltTreesUnchanged ==
    /\ tree # <<>> => tree' = tree
    /\ tree2 # <<>> => tree2' = tree2

\* C27: after NewMerkleTree returns, Leaves holds one node per input block
\* in input order, and every GenerateProof, VerifyProof and DiffTrees call,
\* in any order, leaves the built trees unchanged.
C27_BuiltTreeImmutable ==
    /\ [](tree # <<>> => LeavesAreInputBlocks(tree[1], blocks))
    /\ [](tree2 # <<>> => LeavesAreInputBlocks(tree2[1], blocks2))
    /\ [][BuiltTreesUnchanged]_vars

\* GenerateProof, VerifyProof and DiffTrees have all been called on a tree
\* of three leaves, which still has three leaves and the root it was built
\* with.
C27_Witness ==
    /\ gen # <<>> /\ ver # <<>> /\ diff # <<>>
    /\ Len(blocks) = 3 /\ G.err = ErrNil /\ V.valid
    /\ tree[1] = NewMerkleTree(blocks)
    /\ tree[1].Leaves = <<1, 2, 3>>

C29_DiffEmptyIffRootsEqual ==
    diff # <<>>
    => /\ D.err = ErrNil
       /\ (D.differences = <<>>) <=> (DA.RootHash = DB.RootHash)
       /\ Len(BlocksNo(D.a)) = Len(BlocksNo(D.b))
          => DiffEntries \subseteq
                 UNION {{DiffNode(HashData(BlocksNo(D.a)[i].EncryptedData), TRUE),
                         DiffNode(HashData(BlocksNo(D.b)[i].EncryptedData), TRUE)} :
                        i \in DifferingPositions}

\* Two trees of three leaves with the same first two payloads and different
\* last payloads were compared: the left subtrees are equal, the roots are
\* not, and the result is not empty and holds no entry of the first two
\* leaves.
C29_Witness ==
    /\ diff # <<>> /\ D.a = 1 /\ D.b = 2
    /\ Len(blocks) = 3 /\ Len(blocks2) = 3
    /\ DifferingPositions = {3}
    /\ blocks[1].EncryptedData # blocks[3].EncryptedData
    /\ blocks[2].EncryptedData # blocks2[3].EncryptedData
    /\ DA.RootHash # DB.RootHash
    /\ DA.nodes[DA.nodes[DA.Root].Left].Hash = DB.nodes[DB.nodes[DB.Root].Left].Hash
    /\ D.differences # <<>>
    /\ DiffNode(HashData(blocks[1].EncryptedData), TRUE) \notin DiffEntries

\* ------------------------------------------------- server claims, continued
\* The leaf hashes of the tree whose root the client was given: the tree
\* over the blocks the server held then.
LeafHashesAtRoot ==
    {HashData(serverBlocks[i].EncryptedData) : i \in 1..client.root[1].at}

\* C30: when the client has a root R from GetMerkleRoot and then asks
\* GenerateProof for a leaf of the tree of R, then, whatever SubmitBlock
\* calls of others run in between, the call fails or returns a proof that
\* VerifyProof accepts against R.  (The handler never reads the MerkleRoot
\* field of the request.)
C30_ProofIsForRequestedRoot ==
    (/\ client.verify # <<>>
     /\ client.proof[1].LeafHashes[1] \in LeafHashesAtRoot
     /\ client.proof[1].Success)
    => client.verify[1].Valid
====
